---------------------------- MODULE Spec2Model ----------------------------
(*************************************************************************)
(* Model of part-4/app.py: a JSON CRUD API over one table, Book, held in *)
(* a SQLite database through SQLAlchemy.                                 *)
(*                                                                       *)
(* Encoding of values.  A nullable value is an option: None is <<>> and  *)
(* Some(v) is <<v>>.  A string is a sequence of one-character strings,   *)
(* so that lower(), LIKE and int() are computed character by character.  *)
(* A JSON request body is a function from the keys it holds to option    *)
(* values (JSON null is None); the empty body {} is the empty function.  *)
(*************************************************************************)
EXTENDS Integers, Sequences, FiniteSets, TLC

VARIABLES books, now, resp, pending

vars == <<books, now, resp, pending>>

(* Bounds of the model. *)
MaxId == 2
MaxClock == 1

None == <<>>
Some(v) == <<v>>

(*************************************************************************)
(* Strings                                                               *)
(*************************************************************************)
LowerChar(c) ==
    CASE c = "A" -> "a"
      [] c = "B" -> "b"
      [] OTHER -> c

Lower(s) == [i \in 1..Len(s) |-> LowerChar(s[i])]

(* SQL LIKE: % matches any run of characters, _ any one character. *)
RECURSIVE Like(_, _)
Like(p, s) ==
    IF p = <<>> THEN s = <<>>
    ELSE IF Head(p) = "%"
         THEN Like(Tail(p), s) \/ (s # <<>> /\ Like(p, Tail(s)))
         ELSE /\ s # <<>>
              /\ (Head(p) = "_" \/ Head(p) = Head(s))
              /\ Like(Tail(p), Tail(s))

(* Book.title.ilike(pattern): lower(column) LIKE lower(pattern); a NULL  *)
(* column never matches.                                                  *)
ilike(col, pattern) ==
    /\ col # None
    /\ Like(Lower(pattern), Lower(col[1]))

(* The pattern f'%{term}%' of search_books. *)
Wrap(term) == <<"%">> \o term \o <<"%">>

DigitSeq == <<"0", "1", "2", "3", "4", "5", "6", "7", "8", "9">>

IsDigit(c) == \E i \in 1..Len(DigitSeq) : DigitSeq[i] = c

DigitVal(c) == (CHOOSE i \in 1..Len(DigitSeq) : DigitSeq[i] = c) - 1

RECURSIVE Strip(_)
Strip(s) ==
    IF s = <<>> THEN s
    ELSE IF Head(s) = " " THEN Strip(Tail(s))
    ELSE IF s[Len(s)] = " " THEN Strip(SubSeq(s, 1, Len(s) - 1))
    ELSE s

RECURSIVE DigitsValue(_, _)
DigitsValue(s, acc) ==
    IF s = <<>> THEN acc ELSE DigitsValue(Tail(s), 10 * acc + DigitVal(Head(s)))

(* Python int(str): surrounding blanks stripped, an optional sign, then  *)
(* decimal digits.  None stands for the ValueError it raises otherwise.  *)
int(s) ==
    LET t == Strip(s)
        signed == t # <<>> /\ Head(t) \in {"-", "+"}
        d == IF signed THEN Tail(t) ELSE t
    IN  IF d # <<>> /\ \A i \in 1..Len(d) : IsDigit(d[i])
        THEN Some(IF signed /\ Head(t) = "-" THEN 0 - DigitsValue(d, 0)
                  ELSE DigitsValue(d, 0))
        ELSE None

(*************************************************************************)
(* The Book table and its constraints                                    *)
(*************************************************************************)
Ids(rows) == {r.id : r \in rows}

(* id = db.Column(db.Integer, primary_key=True) *)
PrimaryKeyOk(rows) == \A r1, r2 \in rows : r1.id = r2.id => r1 = r2

(* title, author: nullable=False *)
NotNullOk(rows) == \A r \in rows : r.title # None /\ r.author # None

(* isbn: unique=True.  SQL NULLs are distinct from one another; every    *)
(* other value, the empty string included, may appear once.              *)
UniqueOk_off(rows) == TRUE

UniqueOk(rows) ==
    \A r1, r2 \in rows : (r1.isbn # None /\ r1.isbn = r2.isbn) => r1 = r2

(* INTEGER PRIMARY KEY on SQLite: a new row gets the largest id + 1. *)
AutoId(rows) ==
    IF rows = {} THEN 1
    ELSE (CHOOSE m \in Ids(rows) : \A i \in Ids(rows) : i <= m) + 1

(* db.session.commit(): the flush is applied only if the table accepts   *)
(* it; otherwise IntegrityError is raised and nothing is written.        *)
CommitOk_nounique(rows) == PrimaryKeyOk(rows) /\ NotNullOk(rows)

CommitOk(rows) == PrimaryKeyOk(rows) /\ NotNullOk(rows) /\ UniqueOk(rows)

(* Book.query.get(id): None, or Some(the row with that id). *)
QueryGet(rows, id) ==
    IF \E r \in rows : r.id = id
    THEN Some(CHOOSE r \in rows : r.id = id)
    ELSE None

(* Book.query.all() over a set of rows: a list in rowid order. *)
RECURSIVE QueryAll(_)
QueryAll(rows) ==
    IF rows = {} THEN <<>>
    ELSE LET first == CHOOSE r \in rows : \A q \in rows : r.id <= q.id
         IN  <<first>> \o QueryAll(rows \ {first})

isoformat(t) == <<"iso", t>>

(* Book.to_dict *)
to_dict(book) ==
    [id |-> book.id,
     title |-> book.title,
     author |-> book.author,
     year |-> book.year,
     isbn |-> book.isbn,
     created_at |-> IF book.created_at # None
                    THEN Some(isoformat(book.created_at[1]))
                    ELSE None]

ToDicts(list) == [i \in 1..Len(list) |-> to_dict(list[i])]

(*************************************************************************)
(* Responses                                                             *)
(*************************************************************************)
(* jsonify({...}), status *)
Json(status, success, error, message, book, list) ==
    [status |-> status, envelope |-> TRUE, success |-> success,
     error |-> error, message |-> message, book |-> book, books |-> list]

Fail(status, error) == Json(status, FALSE, error, "", None, <<>>)

(* An exception no handler catches: the framework answers 500 without    *)
(* the JSON envelope, and the request's session is discarded.            *)
Unhandled(exception) ==
    [status |-> 500, envelope |-> FALSE, success |-> FALSE,
     error |-> exception, message |-> "", book |-> None, books |-> <<>>]

Result(rows, response) == [books |-> rows, resp |-> response]

(* dict.get(key) *)
Get(data, key) == IF key \in DOMAIN data THEN data[key] ELSE None

(* Python truth of None or a string. *)
Truthy(v) == v # None /\ v # Some(<<>>)

(*************************************************************************)
(* Handlers, as functions from the table and the request to the new      *)
(* table and the response                                                *)
(*************************************************************************)
get_books(rows) ==
    Result(rows, Json(200, TRUE, "", "", None, ToDicts(QueryAll(rows))))

get_book(rows, id) ==
    LET book == QueryGet(rows, id)
    IN  IF book = None
        THEN Result(rows, Fail(404, "Book not found"))
        ELSE Result(rows, Json(200, TRUE, "", "", Some(to_dict(book[1])), <<>>))

MissingRequired_none(data) ==
    Get(data, "title") = None \/ Get(data, "author") = None

MissingRequired(data) ==
    ~Truthy(Get(data, "title")) \/ ~Truthy(Get(data, "author"))

(* Book.query.filter_by(isbn=data['isbn']).first() *)
ExistingIsbn(rows, isbn) == \E r \in rows : r.isbn = isbn

(* create_book up to the duplicate check: None to go on, or the 400. *)
create_check(rows, data) ==
    IF DOMAIN data = {} THEN Some(Fail(400, "No data provided"))
    ELSE IF MissingRequired(data)
         THEN Some(Fail(400, "Title and author are required"))
    ELSE IF Truthy(Get(data, "isbn")) /\ ExistingIsbn(rows, data["isbn"])
         THEN Some(Fail(400, "ISBN already exists"))
    ELSE None

NewBook_swapped(rows, t, data) ==
    [id |-> AutoId(rows),
     title |-> data["author"],
     author |-> data["title"],
     year |-> Get(data, "year"),
     isbn |-> Get(data, "isbn"),
     created_at |-> Some(t)]

NewBook(rows, t, data) ==
    [id |-> AutoId(rows),
     title |-> data["title"],
     author |-> data["author"],
     year |-> Get(data, "year"),
     isbn |-> Get(data, "isbn"),
     created_at |-> Some(t)]

(* create_book from Book(...) on: add, commit, answer 201. *)
create_insert(rows, t, data) ==
    LET new_book == NewBook(rows, t, data)
        after == rows \cup {new_book}
    IN  IF CommitOk(after)
        THEN Result(after, Json(201, TRUE, "", "Book created successfully",
                                Some(to_dict(new_book)), <<>>))
        ELSE Result(rows, Unhandled("IntegrityError"))

create_book(rows, t, data) ==
    LET early == create_check(rows, data)
    IN  IF early # None THEN Result(rows, early[1])
        ELSE create_insert(rows, t, data)

ApplyUpdate_replace(book, data) ==
    [book EXCEPT !.title = Get(data, "title"),
                 !.author = Get(data, "author"),
                 !.year = Get(data, "year"),
                 !.isbn = Get(data, "isbn")]

ApplyUpdate(book, data) ==
    [book EXCEPT
       !.title = IF "title" \in DOMAIN data THEN data["title"] ELSE @,
       !.author = IF "author" \in DOMAIN data THEN data["author"] ELSE @,
       !.year = IF "year" \in DOMAIN data THEN data["year"] ELSE @,
       !.isbn = IF "isbn" \in DOMAIN data THEN data["isbn"] ELSE @]

update_book(rows, id, data) ==
    LET book == QueryGet(rows, id)
    IN  IF book = None THEN Result(rows, Fail(404, "Book not found"))
        ELSE IF DOMAIN data = {} THEN Result(rows, Fail(400, "No data provided"))
        ELSE LET updated == ApplyUpdate(book[1], data)
                 after == (rows \ {book[1]}) \cup {updated}
             IN  IF CommitOk(after)
                 THEN Result(after, Json(200, TRUE, "", "Book updated successfully",
                                         Some(to_dict(updated)), <<>>))
                 ELSE Result(rows, Unhandled("IntegrityError"))

DeleteRow_all(rows, book) == {}

DeleteRow(rows, book) == rows \ {book}

delete_book(rows, id) ==
    LET book == QueryGet(rows, id)
    IN  IF book = None THEN Result(rows, Fail(404, "Book not found"))
        ELSE Result(DeleteRow(rows, book[1]),
                    Json(200, TRUE, "", "Book deleted successfully", None, <<>>))

(* The rows search_books selects; args holds q, author and year, each    *)
(* None when the parameter is not in the query string.                   *)
SearchRows(rows, args) ==
    {r \in rows :
        /\ Truthy(args.q) => ilike(r.title, Wrap(args.q[1]))
        /\ Truthy(args.author) => ilike(r.author, Wrap(args.author[1]))
        /\ Truthy(args.year) => r.year = int(args.year[1])}

search_books(rows, args) ==
    IF Truthy(args.year) /\ int(args.year[1]) = None
    THEN Result(rows, Unhandled("ValueError"))
    ELSE Result(rows, Json(200, TRUE, "", "", None,
                           ToDicts(QueryAll(SearchRows(rows, args)))))

(*************************************************************************)
(* Requests                                                              *)
(*************************************************************************)
TitleVals == {None, Some(<<>>), Some(<<"A", "b">>)}
AuthorVals == {Some(<<>>), Some(<<"b">>)}
YearVals == {Some(1)}
IsbnVals == {Some(<<>>), Some(<<"x">>)}

(* A key is absent from the body, or present with one of the values. *)
Field(key, vals) == {<<>>} \cup {key :> v : v \in vals}

Bodies ==
    {t @@ a @@ y @@ i :
        t \in Field("title", TitleVals), a \in Field("author", AuthorVals),
        y \in Field("year", YearVals), i \in Field("isbn", IsbnVals)}

ReqIds == 1..MaxId

SearchArgs ==
    [q : {None, Some(<<"a">>), Some(<<"_">>), Some(<<"%">>)},
     author : {None, Some(<<>>), Some(<<"B">>)},
     year : {None, Some(<<"1">>), Some(<<" ", "2">>), Some(<<"x">>)}]

Workers == {"w1", "w2"}

(* The bodies of the interleaved creates. *)
RaceBodies ==
    {d \in Bodies :
        /\ "year" \notin DOMAIN d
        /\ Get(d, "author") = Some(<<"b">>)
        /\ Get(d, "title") \in {Some(<<>>), Some(<<"A", "b">>)}}

(*************************************************************************)
(* State machine                                                         *)
(*************************************************************************)
Tag(op, response) == [op |-> op] @@ response

Idle == [stage |-> "idle", data |-> <<>>, status |-> 0]

(* init_db on a new database file: create_all() leaves the table empty.  *)
(* The three sample rows it then adds are valid rows with distinct isbn, *)
(* a state three creates also reach.                                     *)
Init ==
    /\ books = {}
    /\ now = 0
    /\ resp = Tag("none", Fail(0, ""))
    /\ pending = [w \in Workers |-> Idle]

(* datetime.utcnow advances between requests. *)
Tick ==
    /\ now < MaxClock
    /\ now' = now + 1
    /\ UNCHANGED <<books, resp, pending>>

Respond(op, r) ==
    /\ books' = r.books
    /\ resp' = Tag(op, r.resp)
    /\ UNCHANGED <<now, pending>>

GetBooks == Respond("get_books", get_books(books))

GetBook == \E id \in ReqIds : Respond("get_book", get_book(books, id))

CreateBook ==
    \E data \in Bodies :
        /\ create_check(books, data) # None \/ AutoId(books) <= MaxId
        /\ Respond("create_book", create_book(books, now, data))

UpdateBook ==
    \E id \in ReqIds, data \in Bodies :
        Respond("update_book", update_book(books, id, data))

DeleteBook == \E id \in ReqIds : Respond("delete_book", delete_book(books, id))

SearchBooks ==
    \E args \in SearchArgs : Respond("search_books", search_books(books, args))

Next ==
    \/ Tick
    \/ GetBooks
    \/ GetBook
    \/ CreateBook
    \/ UpdateBook
    \/ DeleteBook
    \/ SearchBooks

Spec == Init /\ [][Next]_vars

(* Two create_book requests served by concurrent workers: each runs the  *)
(* validation and the duplicate lookup (lines 85-98), and later the      *)
(* insert and commit (lines 101-115); the database serialises commits.   *)
RaceBegin(w) ==
    \E data \in RaceBodies :
        /\ pending[w].stage # "checked"
        /\ LET early == create_check(books, data)
           IN  IF early # None
               THEN /\ resp' = Tag("create_book", early[1])
                    /\ pending' = [pending EXCEPT ![w] =
                          [stage |-> "done", data |-> data,
                           status |-> early[1].status]]
               ELSE /\ resp' = resp
                    /\ pending' = [pending EXCEPT ![w] =
                          [stage |-> "checked", data |-> data, status |-> 0]]
        /\ UNCHANGED <<books, now>>

RaceCommit(w) ==
    /\ pending[w].stage = "checked"
    /\ AutoId(books) <= MaxId
    /\ LET r == create_insert(books, now, pending[w].data)
       IN  /\ books' = r.books
           /\ resp' = Tag("create_book", r.resp)
           /\ pending' = [pending EXCEPT ![w] =
                 [stage |-> "done", data |-> pending[w].data,
                  status |-> r.resp.status]]
    /\ UNCHANGED now

Begin == \E w \in Workers : RaceBegin(w)

Commit == \E w \in Workers : RaceCommit(w)

RaceNext ==
    \/ Tick
    \/ Begin
    \/ Commit

SpecRace == Init /\ [][RaceNext]_vars

(*************************************************************************)
(* Properties                                                            *)
(*************************************************************************)
Empty(v) == v = None \/ v = Some(<<>>)

UpdateFields == {"title", "author", "year", "isbn"}

(* s contains sub as a contiguous run of characters. *)
Contains(s, sub) ==
    \E i \in 1..(Len(s) + 1) :
        /\ i + Len(sub) - 1 <= Len(s)
        /\ SubSeq(s, i, i + Len(sub) - 1) = sub

ContainsNoCase(col, term) == col # None /\ Contains(Lower(col[1]), Lower(term))

Range(list) == {list[i] : i \in 1..Len(list)}

(* C1: in every reachable state no two distinct persisted Books share    *)
(* the same non-null isbn.                                               *)
C1_IsbnUnique ==
    \A r1, r2 \in books : (r1 # r2 /\ r1.isbn # None) => r1.isbn # r2.isbn

(* An update has been committed and two Books hold a non-null isbn. *)
C1_Witness ==
    /\ resp.op = "update_book"
    /\ resp.status = 200
    /\ Cardinality({r \in books : r.isbn # None}) = 2

(* C2: in every reachable state every persisted Book has a title and an  *)
(* author that are neither null nor the empty string.                    *)
C2_TitleAuthorNonEmpty ==
    \A r \in books : ~Empty(r.title) /\ ~Empty(r.author)

(* C3: a create that carries title and author and whose isbn is non-null *)
(* and equal to the isbn of a persisted Book fails with ConflictError    *)
(* (400, 'ISBN already exists') and leaves the store unchanged.          *)
C3_DuplicateIsbnConflict ==
    \A data \in Bodies :
        ( /\ ~Empty(Get(data, "title"))
          /\ ~Empty(Get(data, "author"))
          /\ Get(data, "isbn") # None
          /\ \E r \in books : r.isbn = Get(data, "isbn") )
        => LET r == create_book(books, now, data)
           IN  /\ r.resp = Fail(400, "ISBN already exists")
               /\ r.books = books

(* C4: a create whose title or author is missing or empty fails with     *)
(* ValidationError (a 400 in the failure envelope) and the set of        *)
(* persisted Books is the same before and after the call.                *)
C4_MissingRequiredRejected ==
    \A data \in Bodies :
        (Empty(Get(data, "title")) \/ Empty(Get(data, "author")))
        => LET r == create_book(books, now, data)
           IN  /\ r.resp.status = 400
               /\ r.resp.envelope
               /\ ~r.resp.success
               /\ r.resp.error \in {"No data provided",
                                    "Title and author are required"}
               /\ r.books = books

(* A create was rejected for its title or author while Books exist. *)
C4_Witness ==
    /\ resp.op = "create_book"
    /\ resp.error = "Title and author are required"
    /\ books # {}

(* C5: a successful create returns an id that no Book persisted before   *)
(* the call holds and that the store, not the request, chose; exactly    *)
(* one Book holds it afterwards, and a get on that id returns the title  *)
(* and author given to create.                                           *)
C5_CreateThenGet ==
    \A data \in Bodies :
        LET r == create_book(books, now, data)
        IN  r.resp.status = 201 =>
              LET id == r.resp.book[1].id
                  got == get_book(r.books, id)
              IN  /\ id \notin Ids(books)
                  /\ Cardinality({b \in r.books : b.id = id}) = 1
                  /\ r.books \ {b \in r.books : b.id = id} = books
                  /\ got.resp.status = 200
                  /\ got.resp.book[1].id = id
                  /\ got.resp.book[1].title = data["title"]
                  /\ got.resp.book[1].author = data["author"]

(* A create succeeded next to an existing Book, and a get on the new id  *)
(* answers with the new Book.                                            *)
C5_Witness ==
    /\ resp.op = "create_book"
    /\ resp.status = 201
    /\ Cardinality(books) = 2
    /\ get_book(books, resp.book[1].id).resp.book = resp.book

(* C6: a successful update sets the fields present in the input and      *)
(* keeps every absent field, the id and created_at of the Book, and      *)
(* leaves every other Book unchanged.                                    *)
C6_UpdateFrame ==
    \A id \in ReqIds, data \in Bodies :
        LET r == update_book(books, id, data)
        IN  r.resp.status = 200 =>
              LET old == QueryGet(books, id)[1]
                  new == QueryGet(r.books, id)[1]
              IN  /\ \A f \in UpdateFields :
                        new[f] = IF f \in DOMAIN data THEN data[f] ELSE old[f]
                  /\ new.id = old.id
                  /\ new.created_at = old.created_at
                  /\ {b \in r.books : b.id # id} = {b \in books : b.id # id}
                  /\ Ids(r.books) = Ids(books)
                  /\ r.resp.book = Some(to_dict(new))

(* An update succeeded, at a later time than the creation of a Book it   *)
(* changed, while another Book exists.                                   *)
C6_Witness ==
    /\ resp.op = "update_book"
    /\ resp.status = 200
    /\ Cardinality(books) = 2
    /\ \E b \in books :
          /\ to_dict(b) = resp.book[1]
          /\ b.created_at # Some(now)
          /\ b.year = Some(1)

(* C7: a successful delete removes exactly the Book with that id, so     *)
(* that a get on the id answers NotFound and every other Book is         *)
(* unchanged; a delete on an id no Book holds answers NotFound and       *)
(* changes nothing.                                                      *)
C7_DeleteThenGet ==
    \A id \in ReqIds :
        LET r == delete_book(books, id)
        IN  IF id \in Ids(books)
            THEN /\ r.resp.status = 200
                 /\ r.resp.success
                 /\ get_book(r.books, id).resp = Fail(404, "Book not found")
                 /\ r.books = {b \in books : b.id # id}
            ELSE /\ r.resp = Fail(404, "Book not found")
                 /\ r.books = books

(* A delete succeeded and left another Book in the store. *)
C7_Witness ==
    /\ resp.op = "delete_book"
    /\ resp.status = 200
    /\ books # {}

(* C8: a search that answers returns exactly the Books that satisfy      *)
(* every supplied filter: title contains q and author contains author,   *)
(* both without regard to case, and year equals the given year; with no *)
(* filter it returns the Books list() returns.                           *)
C8_SearchExact ==
    /\ search_books(books, [q |-> None, author |-> None, year |-> None]).resp.books
          = get_books(books).resp.books
    /\ \A args \in SearchArgs :
        LET r == search_books(books, args)
        IN  r.resp.status = 200 =>
              Range(r.resp.books) =
                {to_dict(m) : m \in
                   {b \in books :
                      /\ args.q # None => ContainsNoCase(b.title, args.q[1])
                      /\ args.author # None =>
                            ContainsNoCase(b.author, args.author[1])
                      /\ Truthy(args.year) => b.year = int(args.year[1])}}

(* C9: a search whose year is a non-empty string that is no integer      *)
(* fails with ValidationError, a 400 in the failure envelope, and the    *)
(* store is unchanged.                                                   *)
C9_BadYearRejected ==
    \A args \in SearchArgs :
        (Truthy(args.year) /\ int(args.year[1]) = None)
        => LET r == search_books(books, args)
           IN  /\ r.resp.status = 400
               /\ r.resp.envelope
               /\ ~r.resp.success
               /\ r.books = books

(* C10: when two creates with the same non-null isbn both pass the       *)
(* duplicate lookup before either commits, at most one of the inserts    *)
(* is persisted: the store never holds two Books with that isbn, and     *)
(* never have both requests been answered 201.                           *)
C10_RaceKeepsIsbnUnique ==
    /\ \A i \in IsbnVals : Cardinality({r \in books : r.isbn = i}) <= 1
    /\ \A w1, w2 \in Workers :
          ( /\ w1 # w2
            /\ pending[w1].stage = "done" /\ pending[w2].stage = "done"
            /\ Get(pending[w1].data, "isbn") # None
            /\ Get(pending[w1].data, "isbn") = Get(pending[w2].data, "isbn") )
          => ~(pending[w1].status = 201 /\ pending[w2].status = 201)

(* Both requests passed the lookup for isbn "x" (a later lookup would    *)
(* have answered 400); one was committed and the other refused by the    *)
(* store.                                                                *)
C10_Witness ==
    \E w1, w2 \in Workers :
        /\ w1 # w2
        /\ pending[w1].stage = "done" /\ pending[w2].stage = "done"
        /\ Get(pending[w1].data, "isbn") = Some(<<"x">>)
        /\ Get(pending[w2].data, "isbn") = Some(<<"x">>)
        /\ pending[w1].status = 201
        /\ pending[w2].status = 500
        /\ Cardinality({r \in books : r.isbn = Some(<<"x">>)}) = 1

=============================================================================
